---- MODULE Spec2Model ----
(***************************************************************************)
(* The two Streamlit pages of the delirium prediction tool, app.py and     *)
(* new_app.py, as one state machine.  A script run loads the artifacts,    *)
(* builds the form, and, when the form was submitted, validates the        *)
(* record, scores it and renders the result.                               *)
(*                                                                         *)
(* Probabilities and thresholds are integers in units of 1/10000           *)
(* (0.4585 is 4585, 1.0 is 10000); form values are in units of 1/10.       *)
(***************************************************************************)
EXTENDS Integers, Sequences, FiniteSets, TLC

VARIABLES
    variant,            \* which page runs: "app" or "new_app"
    disk,               \* the two artifact files, only ever read
    pc,                 \* position of the script run
    model,              \* the loaded classifier
    optimal_threshold,  \* threshold_config['optimal_threshold']
    feature_names,      \* threshold_config['selected_features']
    load_error,         \* str(e) of the startup except clause, "" if none
    user_input,         \* the dict the form fills, in insertion order
    submitted,          \* st.form_submit_button's value
    error_msgs,         \* the validation messages
    input_df,           \* the row handed to predict_proba
    predict_calls,      \* invocations of model.predict_proba in this run
    proba,              \* -1 while unassigned
    prediction,         \* -1 while unassigned
    display,            \* what the run rendered so far, in order
    startup,            \* history: the configuration the first run loaded
    first_ok,           \* history: what the first valid submission rendered
    prev_failed         \* history: an earlier submission failed

vars == <<variant, disk, pc, model, optimal_threshold, feature_names,
          load_error, user_input, submitted, error_msgs, input_df,
          predict_calls, proba, prediction, display, startup, first_ok,
          prev_failed>>

----------------------------------------------------------------------------
(* Bounds *)

\* at most this many form fields hold a missing value in one submission
MaxMissing == 2

----------------------------------------------------------------------------
(* Python dicts: insertion-ordered sequences of <<key, value>> pairs *)

EmptyDict == << >>

DictKeys(d) == [i \in 1..Len(d) |-> d[i][1]]

DictHas(d, k) == \E i \in 1..Len(d) : d[i][1] = k

DictGet(d, k) == d[CHOOSE i \in 1..Len(d) : d[i][1] = k][2]

\* d[k] = v: a new key goes last, an existing key keeps its place
DictSet(d, k, v) ==
    IF DictHas(d, k)
    THEN [i \in 1..Len(d) |-> IF d[i][1] = k THEN <<k, v>> ELSE d[i]]
    ELSE Append(d, <<k, v>>)

Range(s) == {s[i] : i \in 1..Len(s)}

----------------------------------------------------------------------------
(* Form values.  A widget returns a number or a missing value. *)

Num(n) == [isna |-> FALSE, v |-> n]

NaN == [isna |-> TRUE, v |-> 0]

\* pd.isna
IsNa(x) == x.isna

----------------------------------------------------------------------------
(* app.py: the hard-coded form *)

\* each feat_info as its "/"-separated parts
feature_groups ==
    << << <<"admission_age", "(years)">>,
          <<"hypertension", "">> >>,
       << <<"sbp", "(mmHg)">>,
          <<"spo2", "(%)">>,
          <<"temperature", "(C)">>,
          <<"urineoutput_24h", "(ml)">> >>,
       << <<"platelet", "(K", "uL)">>,
          <<"creatinine", "(mg", "dL, 1mg", "dL=88.4umol", "L)">>,
          <<"potassium", "(mmol", "L)">>,
          <<"hemoglobin", "(g", "dL)">> >>,
       << <<"charlson_comorbidity_index", "">>,
          <<"gcs_min", "">>,
          <<"apsiii", "">>,
          <<"oasis", "">> >> >>

\* feat_info.split("/")[0].strip()
EngName(feat_info) == feat_info[1]

RECURSIVE Flatten(_)
Flatten(groups) ==
    IF groups = << >> THEN << >> ELSE Head(groups) \o Flatten(Tail(groups))

\* the feat_info entries in the order the two nested loops visit them
GroupFeatures == Flatten(feature_groups)

AppFields == [i \in 1..Len(GroupFeatures) |-> EngName(GroupFeatures[i])]

\* value= of each widget of app.py
AppDefault(eng_name) ==
    CASE eng_name = "hypertension" -> 0
      [] eng_name = "gcs_min" -> 150
      [] eng_name = "charlson_comorbidity_index" -> 0
      [] eng_name = "admission_age" -> 600
      [] eng_name = "sbp" -> 1200
      [] eng_name = "spo2" -> 980
      [] eng_name = "temperature" -> 365
      [] eng_name = "urineoutput_24h" -> 10000
      [] eng_name = "platelet" -> 2000
      [] eng_name = "creatinine" -> 8
      [] eng_name = "potassium" -> 40
      [] eng_name = "hemoglobin" -> 120
      [] eng_name \in {"apsiii", "oasis"} -> 300
      [] OTHER -> 0

----------------------------------------------------------------------------
(* new_app.py: the form follows the loaded feature list *)

\* "age" in feat.lower(), or its Chinese word in feat
MentionsAge(feat) == feat \in {"admission_age"}

\* "score" in feat.lower(), or either of its Chinese words in feat
MentionsScore(feat) == feat \in {"sofa_score"}

NewAppDefault(feat) ==
    IF MentionsAge(feat) THEN 600
    ELSE IF MentionsScore(feat) THEN 100
    ELSE 0

----------------------------------------------------------------------------
(* The artifacts *)

\* selected_features lists a config file can hold
FeatureLists ==
    { <<"gcs_min", "admission_age", "apsiii", "oasis", "sbp", "spo2",
        "temperature", "urineoutput_24h", "platelet", "creatinine",
        "potassium", "hemoglobin", "charlson_comorbidity_index",
        "hypertension">>,
      <<"gcs_min", "sofa_score", "admission_age">> }

Thresholds == {2000, 3000, 4585, 7000, 8000}

\* the probabilities a classifier can return
ProbValues == <<0, 2999, 3000, 4584, 4585, 6200, 6999, 7000, 9999, 10000>>

\* a classifier artifact: one that scores, or one whose scoring call throws
ModelArtifacts ==
    {[raises |-> FALSE, seed |-> s] : s \in 0..(Len(ProbValues) - 1)}
        \cup {[raises |-> TRUE, seed |-> 0]}

NoModel == [raises |-> TRUE, seed |-> -1]

ConfigKeys == {"optimal_threshold", "selected_features"}

\* a JSON document: the keys it holds and their values
Doc(keys, t, f) == [keys |-> keys, optimal_threshold |-> t, selected_features |-> f]

\* the documents a config file can hold; some lack a required key
ConfigDocs ==
    {Doc(ConfigKeys, t, f) : t \in Thresholds, f \in FeatureLists}

BrokenDocs ==
    {Doc(ConfigKeys \ {k}, 4585, <<"gcs_min", "sofa_score", "admission_age">>) :
        k \in ConfigKeys}

File(model_file, config_file, classifier, doc) ==
    [model_file |-> model_file, config_file |-> config_file,
     classifier |-> classifier, doc |-> doc]

DiskStates ==
    {File("ok", "ok", m, d) : m \in ModelArtifacts, d \in ConfigDocs}
    \cup
    {File("ok", "ok", [raises |-> FALSE, seed |-> 0], d) : d \in BrokenDocs}
    \cup
    {File(mf, cf, [raises |-> FALSE, seed |-> 0],
          Doc(ConfigKeys, 4585, <<"gcs_min", "sofa_score", "admission_age">>)) :
        mf \in {"ok", "missing"}, cf \in {"ok", "missing", "corrupt"}}

----------------------------------------------------------------------------
(* What a run renders: one element per st.* call *)

Elem(w, msg, s, n) == [w |-> w, msg |-> msg, s |-> s, n |-> n]

Shows(w, msg) == \E i \in 1..Len(display) : display[i].w = w /\ display[i].msg = msg

----------------------------------------------------------------------------
(* Startup: the module-level try/except *)

\* the first statement of the try block that raises, and the names bound so far
LoadOutcome(d) ==
    IF d.model_file # "ok"
    THEN [e |-> "CatBoostError", model |-> NoModel,
          optimal_threshold |-> -1, feature_names |-> << >>]
    ELSE IF d.config_file = "missing"
    THEN [e |-> "FileNotFoundError", model |-> d.classifier,
          optimal_threshold |-> -1, feature_names |-> << >>]
    ELSE IF d.config_file = "corrupt"
    THEN [e |-> "JSONDecodeError", model |-> d.classifier,
          optimal_threshold |-> -1, feature_names |-> << >>]
    ELSE IF "optimal_threshold" \notin d.doc.keys
    THEN [e |-> "KeyError", model |-> d.classifier,
          optimal_threshold |-> -1, feature_names |-> << >>]
    ELSE IF "selected_features" \notin d.doc.keys
    THEN [e |-> "KeyError", model |-> d.classifier,
          optimal_threshold |-> d.doc.optimal_threshold, feature_names |-> << >>]
    ELSE [e |-> "", model |-> d.classifier,
          optimal_threshold |-> d.doc.optimal_threshold,
          feature_names |-> d.doc.selected_features]

\* the except clause's two st.error calls
LoadFailureDisplay(e) ==
    << Elem("error", "model_loading_failed_en", e, 0),
       Elem("error", "model_loading_failed_zh", e, 0) >>

\* a mutant: the except clause reports and falls through to the page
AfterLoadFailure_NoStop == "form"

\* st.stop() ends the run
AfterLoadFailure == "stopped"

NoStartup == [set |-> FALSE, model |-> NoModel, optimal_threshold |-> -1,
              feature_names |-> << >>]

Load ==
    /\ pc = "start"
    /\ LET r == LoadOutcome(disk) IN
        /\ model' = r.model
        /\ optimal_threshold' = r.optimal_threshold
        /\ feature_names' = r.feature_names
        /\ load_error' = r.e
        /\ IF r.e # ""
           THEN /\ display' = display \o LoadFailureDisplay(r.e)
                /\ pc' = AfterLoadFailure
                /\ UNCHANGED startup
           ELSE /\ display' = display
                /\ pc' = "form"
                /\ startup' = IF startup.set THEN startup
                              ELSE [set |-> TRUE, model |-> r.model,
                                    optimal_threshold |-> r.optimal_threshold,
                                    feature_names |-> r.feature_names]
    /\ UNCHANGED <<variant, disk, user_input, submitted, error_msgs, input_df,
                   predict_calls, proba, prediction, first_ok, prev_failed>>

----------------------------------------------------------------------------
(* The form *)

\* the names the form has a widget for, in the order it creates them
FormFields == IF variant = "app" THEN AppFields ELSE feature_names

Default(name) == IF variant = "app" THEN AppDefault(name) ELSE NewAppDefault(name)

\* user_input[name] = <the widget's value>, widget by widget
RECURSIVE FillForm(_, _, _)
FillForm(d, names, missing) ==
    IF names = << >> THEN d
    ELSE LET name == Head(names)
             val == IF name \in missing THEN NaN ELSE Num(Default(name))
         IN FillForm(DictSet(d, name, val), Tail(names), missing)

RECURSIVE SubsetsUpTo(_, _)
SubsetsUpTo(S, k) ==
    IF k = 0 THEN {{}}
    ELSE LET prev == SubsetsUpTo(S, k - 1)
         IN prev \cup {m \cup {x} : m \in prev, x \in S}

BuildForm ==
    /\ pc = "form"
    /\ \E missing \in SubsetsUpTo(Range(FormFields), MaxMissing), pressed \in BOOLEAN :
        /\ user_input' = FillForm(EmptyDict, FormFields, missing)
        /\ submitted' = pressed
        /\ pc' = IF pressed THEN "submit" ELSE "done"
    /\ UNCHANGED <<variant, disk, model, optimal_threshold, feature_names,
                   load_error, error_msgs, input_df, predict_calls, proba,
                   prediction, display, startup, first_ok, prev_failed>>

----------------------------------------------------------------------------
(* Submission: validation *)

\* the names the completeness check walks
CheckedNames == IF variant = "app" THEN AppFields ELSE feature_names

\* the two messages appended for one offending name
FieldErrors(name) ==
    << [feat |-> name, lang |-> "en"], [feat |-> name, lang |-> "zh"] >>

RECURSIVE CheckInputs(_, _)
CheckInputs(names, ui) ==
    IF names = << >> THEN << >>
    ELSE LET name == Head(names)
             bad == ~DictHas(ui, name) \/ IsNa(DictGet(ui, name))
         IN (IF bad THEN FieldErrors(name) ELSE << >>)
                \o CheckInputs(Tail(names), ui)

\* st.error of the heading, then of every message
ErrorDisplay(msgs) ==
    << Elem("error", "input_errors", "", 0) >>
        \o [i \in 1..Len(msgs) |->
                Elem("error", "requires_valid_value_" \o msgs[i].lang, msgs[i].feat, 0)]

----------------------------------------------------------------------------
(* Submission: the row handed to the classifier *)

Min(S) == CHOOSE x \in S : \A y \in S : x <= y

\* a mutant: the assignment sits after the loops and reads the last eng_name
AssignFromForm_AfterLoops(input_data, feat, ui) ==
    LET hits == {i \in 1..Len(GroupFeatures) : EngName(GroupFeatures[i]) = feat}
    IN IF hits = {} THEN input_data
       ELSE DictSet(input_data, feat,
                    DictGet(ui, EngName(GroupFeatures[Len(GroupFeatures)])))

\* app.py: the loops over feature_groups that find feat's form value
AssignFromForm(input_data, feat, ui) ==
    LET hits == {i \in 1..Len(GroupFeatures) : EngName(GroupFeatures[i]) = feat}
    IN IF hits = {} THEN input_data
       ELSE DictSet(input_data, feat,
                    DictGet(ui, EngName(GroupFeatures[Min(hits)])))

RECURSIVE BuildInputData(_, _, _)
BuildInputData(input_data, names, ui) ==
    IF names = << >> THEN input_data
    ELSE BuildInputData(AssignFromForm(input_data, Head(names), ui),
                        Tail(names), ui)

\* the dict pd.DataFrame([...]) is built from
RowSource == IF variant = "app"
             THEN BuildInputData(EmptyDict, feature_names, user_input)
             ELSE user_input

\* df[names] raises KeyError when a name is no column
HasColumns(df, names) == \A i \in 1..Len(names) : DictHas(df, names[i])

\* df[names]: the named columns, in the order of names
SelectColumns(df, names) ==
    [i \in 1..Len(names) |-> <<names[i], DictGet(df, names[i])>>]

----------------------------------------------------------------------------
(* Submission: the classifier, the label and the risk level *)

RECURSIVE WeightedSum(_, _)
WeightedSum(df, i) ==
    IF i > Len(df) THEN 0 ELSE i * df[i][2].v + WeightedSum(df, i + 1)

\* predict_proba(df)[:, 1][0] of a classifier that scores: positional and
\* deterministic
PredictProba(m, df) ==
    ProbValues[((m.seed + WeightedSum(df, 1)) % Len(ProbValues)) + 1]

\* a mutant: strict comparison
Classify_Strict(p, t) == IF p > t THEN 1 ELSE 0

\* prediction = 1 if proba >= optimal_threshold else 0
Classify(p, t) == IF p >= t THEN 1 ELSE 0

\* a mutant: the first boundary above zero moved
risk_levels_Shifted == <<0, 5000, 7000, 10000>>

risk_levels == <<0, 3000, 7000, 10000>>

labels == <<"Low Risk", "Moderate Risk", "High Risk">>

\* next(i for i, level in enumerate(risk_levels) if proba < level): the
\* Python index of the first level above p, or -1 for StopIteration
RECURSIVE ScanLevels(_, _)
ScanLevels(p, pos) ==
    IF pos > Len(risk_levels) THEN -1
    ELSE IF p < risk_levels[pos] THEN pos - 1
    ELSE ScanLevels(p, pos + 1)

\* a mutant: the "- 1" forgotten
CurrentLevel_NoOffset(i) == i

\* current_level = next(...) - 1
CurrentLevel(i) == i - 1

\* labels[level] with Python's indexing: <<found, label>>
LabelAt(level) ==
    IF level \in 0..(Len(labels) - 1) THEN <<TRUE, labels[level + 1]>>
    ELSE IF level \in (0 - Len(labels))..(0 - 1)
    THEN <<TRUE, labels[Len(labels) + level + 1]>>
    ELSE <<FALSE, "">>

\* the calls from st.divider() to the last recommendation
ResultDisplay(p, pred) ==
    << Elem("divider", "", "", 0),
       Elem("markdown", "prediction_results", "", 0),
       Elem("markdown", "predicted_probability",
            IF pred = 1 THEN "#FF4B4B" ELSE "#0F9D58", p) >>
    \o (IF pred = 1
        THEN << Elem("error", "label", "High Risk: Delirium Likely", 0),
                Elem("markdown", "recommendations", "", 0),
                Elem("markdown", "recommendation", "Notify the attending physician immediately", 1),
                Elem("markdown", "recommendation", "Implement delirium prevention measures", 2),
                Elem("markdown", "recommendation", "Increase monitoring frequency", 3) >>
        ELSE << Elem("success", "label", "Low Risk: Delirium Unlikely", 0),
                Elem("markdown", "recommendations", "", 0),
                Elem("markdown", "recommendation", "Maintain routine monitoring", 1),
                Elem("markdown", "recommendation", "Observe changes in mental status", 2),
                Elem("markdown", "recommendation", "Conduct regular risk assessments", 3) >>)

\* the body of the try block, up to its end or to the statement that raises
TryPredict ==
    LET src == RowSource
        blank == [raised |-> "", input_df |-> << >>, calls |-> 0, proba |-> -1,
                  prediction |-> -1, shown |-> << >>]
    IN IF ~HasColumns(src, feature_names)
       THEN [blank EXCEPT !.raised = "KeyError"]
       ELSE LET df == SelectColumns(src, feature_names)
                called == [blank EXCEPT !.input_df = df, !.calls = 1]
            IN IF model.raises
               THEN [called EXCEPT !.raised = "CatBoostError"]
               ELSE LET p == PredictProba(model, df)
                        pred == Classify(p, optimal_threshold)
                        i == ScanLevels(p, 1)
                        label == LabelAt(CurrentLevel(i))
                        scored == [called EXCEPT !.proba = p, !.prediction = pred,
                                                 !.shown = ResultDisplay(p, pred)]
                    IN IF i = -1
                       THEN [scored EXCEPT !.raised = "StopIteration"]
                       ELSE IF ~label[1]
                       THEN [scored EXCEPT !.raised = "IndexError"]
                       ELSE [scored EXCEPT !.shown =
                                @ \o << Elem("progress", "risk_level", label[2], p) >>]

\* a mutant: a handler for the lookup failure alone
Catches_KeyErrorOnly(e) == e = "KeyError"

\* except Exception: every exception the try block raises derives from it
Catches(e) ==
    e \in {"KeyError", "CatBoostError", "StopIteration", "IndexError"}

\* the except clause's three calls
PredictionErrorDisplay(e) ==
    << Elem("error", "prediction_error_en", e, 0),
       Elem("error", "prediction_error_zh", e, 0),
       Elem("info", "check_input_format", "", 0) >>

NoFirst == [set |-> FALSE, input |-> EmptyDict, display |-> << >>]

Submit ==
    /\ pc = "submit"
    /\ LET msgs == CheckInputs(CheckedNames, user_input)
           r == TryPredict
       IN /\ error_msgs' = msgs
          /\ IF msgs # << >>
             THEN /\ display' = display \o ErrorDisplay(msgs)
                  /\ pc' = "done"
                  /\ UNCHANGED <<input_df, predict_calls, proba, prediction>>
             ELSE /\ input_df' = r.input_df
                  /\ predict_calls' = predict_calls + r.calls
                  /\ proba' = r.proba
                  /\ prediction' = r.prediction
                  /\ IF r.raised = ""
                     THEN /\ display' = display \o r.shown
                          /\ pc' = "done"
                     ELSE IF Catches(r.raised)
                     THEN /\ display' = display \o r.shown
                                            \o PredictionErrorDisplay(r.raised)
                          /\ pc' = "done"
                     ELSE /\ display' = display \o r.shown
                          /\ pc' = "crashed"
    /\ UNCHANGED <<variant, disk, model, optimal_threshold, feature_names,
                   load_error, user_input, submitted, startup, first_ok,
                   prev_failed>>

----------------------------------------------------------------------------
(* The next script run: every interaction runs the script again from the top *)

ShowsValidationError == Shows("error", "input_errors")

ShowsPredictionError == Shows("error", "prediction_error_en")

Rerun ==
    /\ pc \in {"done", "stopped", "crashed"}
    /\ pc' = "start"
    /\ model' = NoModel
    /\ optimal_threshold' = -1
    /\ feature_names' = << >>
    /\ load_error' = ""
    /\ user_input' = EmptyDict
    /\ submitted' = FALSE
    /\ error_msgs' = << >>
    /\ input_df' = << >>
    /\ predict_calls' = 0
    /\ proba' = -1
    /\ prediction' = -1
    /\ display' = << >>
    /\ first_ok' = IF ~first_ok.set /\ submitted /\ error_msgs = << >>
                   THEN [set |-> TRUE, input |-> user_input, display |-> display]
                   ELSE first_ok
    /\ prev_failed' = (prev_failed \/ ShowsValidationError \/ ShowsPredictionError)
    /\ UNCHANGED <<variant, disk, startup>>

----------------------------------------------------------------------------

Init ==
    /\ variant \in {"app", "new_app"}
    /\ disk \in DiskStates
    /\ pc = "start"
    /\ model = NoModel
    /\ optimal_threshold = -1
    /\ feature_names = << >>
    /\ load_error = ""
    /\ user_input = EmptyDict
    /\ submitted = FALSE
    /\ error_msgs = << >>
    /\ input_df = << >>
    /\ predict_calls = 0
    /\ proba = -1
    /\ prediction = -1
    /\ display = << >>
    /\ startup = NoStartup
    /\ first_ok = NoFirst
    /\ prev_failed = FALSE

\* one script run
Next == Load \/ BuildForm \/ Submit

Spec == Init /\ [][Next]_vars

\* a session: run after run over the same artifacts, with the documented
\* threshold
InitSession == Init /\ disk.doc.optimal_threshold = 4585

NextSession == Load \/ BuildForm \/ Submit \/ Rerun

SpecSession == InitSession /\ [][NextSession]_vars

----------------------------------------------------------------------------
(* What is on the page *)

HighRiskLabel == "High Risk: Delirium Likely"

LowRiskLabel == "Low Risk: Delirium Unlikely"

ShownLabel(text) ==
    \E i \in 1..Len(display) : display[i].msg = "label" /\ display[i].s = text

ShownBucket(text) ==
    \E i \in 1..Len(display) : display[i].msg = "risk_level" /\ display[i].s = text

ShownProbability == Shows("markdown", "predicted_probability")

ShownRecommendations == Shows("markdown", "recommendation")

AnyLabel == ShownLabel(HighRiskLabel) \/ ShownLabel(LowRiskLabel)

AnyBucket == \E b \in Range(labels) : ShownBucket(b)

\* the fields the English field errors on the page name
FieldErrorIndexes ==
    {i \in 1..Len(display) : display[i].msg = "requires_valid_value_en"}

NamedInErrors ==
    {display[i].s : i \in {j \in 1..Len(display) :
        display[j].msg \in {"requires_valid_value_en", "requires_valid_value_zh"}}}

\* the names of the loaded feature list the record has no valid value for
MissingRequired ==
    {f \in Range(feature_names) :
        ~DictHas(user_input, f) \/ IsNa(DictGet(user_input, f))}

\* a submission that passed the completeness check and ran to its end
ValidSubmissionDone == pc = "done" /\ submitted /\ error_msgs = << >>

\* the bucket of section 4.1: [0, 0.3) Low, [0.3, 0.7) Moderate, [0.7, 1.0] High
ExpectedBucket(p) ==
    IF p < 3000 THEN "Low Risk"
    ELSE IF p < 7000 THEN "Moderate Risk"
    ELSE "High Risk"

----------------------------------------------------------------------------
(* Claims *)

\* C1: whenever a probability was computed, the label is Positive
\* (prediction = 1, the High Risk label on the page) if and only if the
\* probability is at least the loaded threshold; equality gives Positive.
C1_LabelIffAtLeastThreshold ==
    proba # -1 =>
        /\ (prediction = 1) <=> (proba >= optimal_threshold)
        /\ (prediction = 0) <=> (proba < optimal_threshold)
        /\ ShownLabel(HighRiskLabel) <=> (proba >= optimal_threshold)
        /\ ShownLabel(LowRiskLabel) <=> (proba < optimal_threshold)

C1_Witness ==
    /\ pc = "done"
    /\ proba = optimal_threshold
    /\ prediction = 1
    /\ ShownLabel(HighRiskLabel)

\* C2: every scored submission ends with the bucket of its probability on the
\* page: Low below 0.3, Moderate from 0.3 below 0.7, High from 0.7 up to and
\* including 1.0.
C2_BucketTotalOnUnitInterval ==
    (pc = "done" /\ proba # -1) => ShownBucket(ExpectedBucket(proba))

\* C3 as claimed: threshold 0.4585 and probability 0.62 give the Positive
\* label and the High bucket.
C3_Scenario1_High ==
    (pc = "done" /\ optimal_threshold = 4585 /\ proba = 6200) =>
        ShownLabel(HighRiskLabel) /\ ShownBucket("High Risk")

\* C3 as amended: threshold 0.4585 and probability 0.62 give the Positive
\* label and the Moderate bucket, and no other label or bucket.
C3_Scenario1_Moderate ==
    (pc = "done" /\ optimal_threshold = 4585 /\ proba = 6200) =>
        /\ ShownLabel(HighRiskLabel) /\ ~ShownLabel(LowRiskLabel)
        /\ \A b \in Range(labels) : ShownBucket(b) <=> (b = "Moderate Risk")

C3_Witness ==
    /\ pc = "done"
    /\ optimal_threshold = 4585
    /\ proba = 6200
    /\ AnyBucket

\* C4: a submission whose record lacks a valid value for k >= 1 names of the
\* loaded feature list ends in the validation error, with exactly k field
\* errors that name exactly those k fields, and without a call of the
\* classifier.
C4_AllMissingReported ==
    (pc = "done" /\ submitted /\ MissingRequired # {}) =>
        /\ ShowsValidationError
        /\ NamedInErrors = MissingRequired
        /\ Cardinality(FieldErrorIndexes) = Cardinality(MissingRequired)
        /\ predict_calls = 0

\* C5: the row handed to the classifier has one element per name of the
\* loaded feature list, the i-th being the record's value for the i-th name;
\* and a valid submission whose record has every name is handed over.
C5_VectorFollowsFeatureList ==
    /\ predict_calls > 0 =>
        /\ Len(input_df) = Len(feature_names)
        /\ \A i \in 1..Len(feature_names) :
              /\ DictHas(user_input, feature_names[i])
              /\ input_df[i][2] = DictGet(user_input, feature_names[i])
    /\ (ValidSubmissionDone
            /\ \A f \in Range(feature_names) : DictHas(user_input, f))
          => predict_calls = 1

C5_Witness ==
    /\ pc = "done"
    /\ predict_calls = 1
    /\ Len(input_df) > 3
    /\ DictKeys(user_input) # feature_names

\* C6: when an artifact is missing or corrupt or the config lacks a required
\* key, the run reports the message and stops there: no form, no
\* validation, no call of the classifier, no result.
DiskBroken ==
    \/ disk.model_file # "ok"
    \/ disk.config_file # "ok"
    \/ ~(ConfigKeys \subseteq disk.doc.keys)

C6_StartupFailureHalts ==
    (DiskBroken /\ pc # "start") =>
        /\ pc = "stopped"
        /\ load_error # ""
        /\ display = LoadFailureDisplay(load_error)
        /\ user_input = EmptyDict
        /\ ~submitted
        /\ error_msgs = << >>
        /\ predict_calls = 0
        /\ proba = -1

C6_Witness ==
    /\ pc = "stopped"
    /\ disk.model_file = "ok"
    /\ disk.config_file = "ok"
    /\ "selected_features" \notin disk.doc.keys
    /\ Shows("error", "model_loading_failed_en")

\* C7: no submission halts a run or changes what was loaded, and a valid
\* submission renders what the first submission of the same record rendered,
\* whatever happened in between.
C7_SubmissionsLeaveSystemReady ==
    /\ pc # "crashed"
    /\ (startup.set /\ pc \in {"form", "submit", "done"}) =>
          /\ model = startup.model
          /\ optimal_threshold = startup.optimal_threshold
          /\ feature_names = startup.feature_names
    /\ (ValidSubmissionDone /\ first_ok.set /\ user_input = first_ok.input) =>
          display = first_ok.display

C7_Witness ==
    /\ ValidSubmissionDone
    /\ first_ok.set
    /\ prev_failed
    /\ AnyBucket
    /\ display = first_ok.display

\* C8: in app.py, a name of the loaded feature list that the record has no
\* value for ends the submission in the validation error naming it, before
\* the prediction step.
C8_UnknownFeatureIsValidationError ==
    (variant = "app" /\ pc = "done" /\ submitted) =>
        \A f \in Range(feature_names) :
            ~DictHas(user_input, f) =>
                /\ ShowsValidationError
                /\ f \in NamedInErrors
                /\ ~ShowsPredictionError

\* C9: a valid submission shows either a complete result and no prediction
\* error, or the prediction error with its hint and no part of a result.
CompleteResult ==
    ShownProbability /\ AnyLabel /\ ShownRecommendations /\ AnyBucket

NoResultPart ==
    ~ShownProbability /\ ~AnyLabel /\ ~ShownRecommendations /\ ~AnyBucket

C9_ResultOrErrorNeverBoth ==
    ValidSubmissionDone =>
        \/ CompleteResult /\ ~ShowsPredictionError
        \/ ShowsPredictionError /\ Shows("info", "check_input_format")
              /\ NoResultPart

\* C10: with the threshold in [0.3, 0.7] the page never shows the High Risk
\* label with the Low bucket, nor the Low Risk label with the High bucket.
C10_LabelAndBucketAgree ==
    (optimal_threshold >= 3000 /\ optimal_threshold <= 7000) =>
        /\ ~(ShownLabel(HighRiskLabel) /\ ShownBucket("Low Risk"))
        /\ ~(ShownLabel(LowRiskLabel) /\ ShownBucket("High Risk"))

C10_Witness ==
    /\ pc = "done"
    /\ optimal_threshold = 3000
    /\ proba = 3000
    /\ ShownLabel(HighRiskLabel)
    /\ ShownBucket("Moderate Risk")

====
